---- MODULE Spec2Model ----
(***************************************************************************)
(* Model of calculate_routes (src/app.py), the synthetic route generator   *)
(* of SmartTransportAI.                                                    *)
(*                                                                         *)
(* Numbers.  Python floats are modelled in decimal fixed point, computed   *)
(* with the operations of the source in the order of the source:           *)
(*   coordinates        integers, unit 1e-4 degree (the tables have at     *)
(*                      most four decimals, so this is exact)              *)
(*   latitude radians   unit 1e-8                                          *)
(*   small angles, sin, sqrt(a), atan2, c     unit 1e-11                   *)
(*   a                  unit 1e-14                                          *)
(*   distance           unit 1e-6 km (one millimetre)                      *)
(*   distance_km, emissions, congestion_level     unit 0.1                 *)
(* TLC integers are 32 bit, so products are taken limb by limb (Mul8).     *)
(***************************************************************************)
EXTENDS Integers, Sequences, FiniteSets

VARIABLES
    start_location,   \* calculate_routes: argument
    end_location,     \* calculate_routes: argument
    city,             \* calculate_routes: argument
    transport_modes,  \* calculate_routes: argument, NoModes for None
    pc,               \* position of the running code
    start_coords,     \* calculate_routes: local, None until resolved
    end_coords,       \* calculate_routes: local, None until resolved
    distance,         \* calculate_routes: local, meaningful once computed
    returned,         \* <<>> before the return, <<the returned dictionary>> after
    calls,            \* the calls made so far (main.py: by the latest run of the action buttons)
    session_state,    \* main.py: st.session_state
    sidebar,          \* the values the sidebar widgets return
    form,             \* app.py Route Planner: the form's widget values and the script's locals
    rendered          \* what the current rerun has put on the page, in order

E4 == 10^4
E6 == 10^6
E8 == 10^8

Abs(x) == IF x < 0 THEN -x ELSE x

\* floor(x * y / 1e8) for x, y >= 0, without leaving 32 bits
Mul8(x, y) ==
    LET xh == x \div E4
        xl == x % E4
        yh == y \div E4
        yl == y % E4
    IN  xh * yh + (xh * yl + xl * yh + (xl * yl) \div E4) \div E4

\* the k leading decimal digits of the fraction r / y (0 <= r < y), as an integer
RECURSIVE LongDiv(_, _, _)
LongDiv(r, y, k) ==
    IF k = 0 THEN 0
    ELSE ((r * 10) \div y) * 10^(k - 1) + LongDiv((r * 10) % y, y, k - 1)

\* floor(x * 1e8 / y) for x >= 0, y > 0
Div8(x, y) == (x \div y) * E8 + LongDiv(x % y, y, 8)

\* integer square root by Newton's iteration
RECURSIVE IsqrtIter(_, _)
IsqrtIter(n, x) ==
    LET y == (x + n \div x) \div 2
    IN  IF y >= x THEN x ELSE IsqrtIter(n, y)

Isqrt(n) == IF n = 0 THEN 0 ELSE IsqrtIter(n, n)

\* math.sqrt: floor(sqrt(n * 1e8)) up to the last digit, i.e. the integer root
\* of n followed by four more decimal digits from one Newton step
Sqrt(n) ==
    LET s == Isqrt(n)
    IN  IF s = 0 THEN 0 ELSE s * E4 + ((n - s * s) * E4) \div (2 * s)

\* math.radians of a latitude: unit 1e-4 degree in, unit 1e-8 radian out
\* (pi / 180 = 0.0174 5329 2519 9433)
RadiansLat(n) ==
    LET m == Abs(n)
        r == m * 174 + (m * 5329 + (m * 2519) \div E4) \div E4
    IN  IF n < 0 THEN -r ELSE r

\* math.radians of a coordinate difference: unit 1e-4 degree in, unit 1e-11 out
RadiansDelta(n) ==
    LET m == Abs(n)
        r == m * 174532 + (m * 9251 + (m * 9943) \div E4) \div E4
    IN  IF n < 0 THEN -r ELSE r

\* math.sin of a small angle, unit 1e-11 in and out: x - x^3/6
SinSmall(x) ==
    LET m  == Abs(x)
        x2 == Mul8(m, m)
        x3 == Mul8(x2, m)
        r  == m - x3 \div (6 * E6)
    IN  IF x < 0 THEN -r ELSE r

\* math.cos of a latitude, unit 1e-8 in and out:
\* 1 - y^2/2 + y^4/24 - y^6/720 + y^8/40320
Cos(y) ==
    LET m  == Abs(y)
        y2 == Mul8(m, m)
        y4 == Mul8(y2, y2)
        y6 == Mul8(y4, y2)
        y8 == Mul8(y4, y4)
    IN  E8 - y2 \div 2 + y4 \div 24 - y6 \div 720 + y8 \div 40320

\* math.atan2(s, t) for s >= 0 (unit 1e-11), t > 0 (unit 1e-8); result unit
\* 1e-11: q - q^3/3 with q = s / t
Atan2(s, t) ==
    LET q  == Div8(s, t)
        q2 == Mul8(q, q)
        q3 == Mul8(q2, q)
    IN  q - q3 \div (3 * E6)

\* Earth radius in km
R == 6371

\* a haversine that takes the cosine of the first latitude twice
haversineFirstLatitude(lat1, lon1, lat2, lon2) ==
    LET dlat == RadiansDelta(lat2 - lat1)
        dlon == RadiansDelta(lon2 - lon1)
        sdlat == SinSmall(IF dlat < 0 THEN -(Abs(dlat) \div 2) ELSE dlat \div 2)
        sdlon == SinSmall(IF dlon < 0 THEN -(Abs(dlon) \div 2) ELSE dlon \div 2)
        a == Mul8(Abs(sdlat), Abs(sdlat))
             + Mul8(Mul8(Cos(RadiansLat(lat1)), Cos(RadiansLat(lat1))),
                    Mul8(Abs(sdlon), Abs(sdlon)))
        c == 2 * Atan2(Sqrt(a), Sqrt(E8 - a \div E6))
    IN  (R * (c \div E4) + (R * (c % E4)) \div E4) \div 10

\* haversine of two coordinate pairs (unit 1e-4 degree); result in 1e-6 km
haversine(lat1, lon1, lat2, lon2) ==
    LET dlat == RadiansDelta(lat2 - lat1)
        dlon == RadiansDelta(lon2 - lon1)
        sdlat == SinSmall(IF dlat < 0 THEN -(Abs(dlat) \div 2) ELSE dlat \div 2)
        sdlon == SinSmall(IF dlon < 0 THEN -(Abs(dlon) \div 2) ELSE dlon \div 2)
        a == Mul8(Abs(sdlat), Abs(sdlat))
             + Mul8(Mul8(Cos(RadiansLat(lat1)), Cos(RadiansLat(lat2))),
                    Mul8(Abs(sdlon), Abs(sdlon)))
        c == 2 * Atan2(Sqrt(a), Sqrt(E8 - a \div E6))
    IN  (R * (c \div E4) + (R * (c % E4)) \div E4) \div 10

----------------------------------------------------------------------------
(* Strings are sequences of one-character strings, so that str.lower and   *)
(* the substring test `in` can be computed.                                *)

UpperCase ==
    <<"A", "B", "C", "D", "E", "F", "G", "H", "I", "J", "K", "L", "M",
      "N", "O", "P", "Q", "R", "S", "T", "U", "V", "W", "X", "Y", "Z">>

LowerCase ==
    <<"a", "b", "c", "d", "e", "f", "g", "h", "i", "j", "k", "l", "m",
      "n", "o", "p", "q", "r", "s", "t", "u", "v", "w", "x", "y", "z">>

\* the lower-case letter of every upper-case ASCII letter
LowerMap ==
    [ch \in {UpperCase[k] : k \in 1..26} |->
        LowerCase[CHOOSE k \in 1..26 : UpperCase[k] = ch]]

LowerChar(ch) == IF ch \in DOMAIN LowerMap THEN LowerMap[ch] ELSE ch

\* str.lower
lower(s) == [i \in 1..Len(s) |-> LowerChar(s[i])]

\* Python's  needle in hay  on strings
In(needle, hay) ==
    \E i \in 1..(Len(hay) - Len(needle) + 1) :
        SubSeq(hay, i, i + Len(needle) - 1) = needle

None == <<>>

MumbaiCoordinates ==
    <<
      [name |-> <<"C", "S", "T">>, coords |-> <<189402, 728351>>],
      [name |-> <<"D", "a", "d", "a", "r">>, coords |-> <<190211, 728426>>],
      [name |-> <<"A", "n", "d", "h", "e", "r", "i">>, coords |-> <<191197, 728464>>],
      [name |-> <<"B", "o", "r", "i", "v", "a", "l", "i">>, coords |-> <<192278, 728620>>],
      [name |-> <<"T", "h", "a", "n", "e">>, coords |-> <<191943, 729627>>],
      [name |-> <<"B", "a", "n", "d", "r", "a">>, coords |-> <<190596, 728295>>],
      [name |-> <<"K", "u", "r", "l", "a">>, coords |-> <<190703, 728810>>],
      [name |-> <<"P", "o", "w", "a", "i">>, coords |-> <<191214, 729097>>],
      [name |-> <<"G", "h", "a", "t", "k", "o", "p", "a", "r">>, coords |-> <<190866, 729093>>],
      [name |-> <<"W", "o", "r", "l", "i">>, coords |-> <<190217, 728170>>],
      [name |-> <<"B", "K", "C">>, coords |-> <<190654, 728695>>],
      [name |-> <<"J", "u", "h", "u">>, coords |-> <<191075, 728263>>],
      [name |-> <<"C", "h", "e", "m", "b", "u", "r">>, coords |-> <<190534, 729002>>],
      [name |-> <<"S", "i", "o", "n">>, coords |-> <<190379, 728691>>],
      [name |-> <<"V", "e", "r", "s", "o", "v", "a">>, coords |-> <<191344, 728186>>],
      [name |-> <<"A", "i", "r", "p", "o", "r", "t">>, coords |-> <<190896, 728656>>],
      [name |-> <<"V", "a", "s", "h", "i">>, coords |-> <<190759, 729963>>],
      [name |-> <<"M", "u", "l", "u", "n", "d">>, coords |-> <<191763, 729572>>],
      [name |-> <<"G", "o", "r", "e", "g", "a", "o", "n">>, coords |-> <<191663, 728526>>],
      [name |-> <<"K", "a", "n", "d", "i", "v", "a", "l", "i">>, coords |-> <<192065, 728570>>]
    >>

PlaceholderCoordinates ==
    <<
      [name |-> <<"C", "e", "n", "t", "r", "a", "l">>, coords |-> <<200000, 770000>>],
      [name |-> <<"N", "o", "r", "t", "h">>, coords |-> <<201000, 770000>>],
      [name |-> <<"S", "o", "u", "t", "h">>, coords |-> <<199000, 770000>>],
      [name |-> <<"E", "a", "s", "t">>, coords |-> <<200000, 771000>>],
      [name |-> <<"W", "e", "s", "t">>, coords |-> <<200000, 769000>>],
      [name |-> <<"A", "i", "r", "p", "o", "r", "t">>, coords |-> <<200500, 770500>>],
      [name |-> <<"S", "t", "a", "t", "i", "o", "n">>, coords |-> <<200200, 770300>>],
      [name |-> <<"D", "o", "w", "n", "t", "o", "w", "n">>, coords |-> <<200100, 770100>>],
      [name |-> <<"S", "u", "b", "u", "r", "b">>, coords |-> <<200800, 770800>>]
    >>

\* the coordinate mapping chosen at lines 176-213
Coordinates(c) == IF c = "Mumbai" THEN MumbaiCoordinates ELSE PlaceholderCoordinates

\* the loop leaving at the first match, as if it ended in a break
RECURSIVE MatchLoopFirst(_, _, _, _)
MatchLoopFirst(coordinates, location, i, found) ==
    IF i > Len(coordinates) \/ found # <<>> THEN found
    ELSE MatchLoopFirst(coordinates, location, i + 1,
                        IF In(lower(coordinates[i].name), lower(location))
                        THEN coordinates[i].coords
                        ELSE found)

\* the matching loop of lines 220-224, for one of the two labels: every key
\* is tried in mapping order and a later match overwrites an earlier one
RECURSIVE MatchLoop(_, _, _, _)
MatchLoop(coordinates, location, i, found) ==
    IF i > Len(coordinates) THEN found
    ELSE MatchLoop(coordinates, location, i + 1,
                   IF In(lower(coordinates[i].name), lower(location))
                   THEN coordinates[i].coords
                   ELSE found)

\* lines 216-228: the start coordinates, defaulting to the first entry
ResolveStartFirstMatch(coordinates, location) ==
    LET found == MatchLoopFirst(coordinates, location, 1, None)
    IN  IF found = None THEN coordinates[1].coords ELSE found

ResolveStart(coordinates, location) ==
    LET found == MatchLoop(coordinates, location, 1, None)
    IN  IF found = None THEN coordinates[1].coords ELSE found

\* lines 217-230: the end coordinates, defaulting to the last entry
ResolveEnd(coordinates, location) ==
    LET found == MatchLoop(coordinates, location, 1, None)
    IN  IF found = None THEN coordinates[Len(coordinates)].coords ELSE found

----------------------------------------------------------------------------
(* Arithmetic on the distance (unit 1e-6 km).                              *)

\* rounding to the nearest integer instead of truncating
intRounded(d, num, den) == (2 * d * num + den * E6) \div (2 * den * E6)

\* rounding up instead of truncating
intCeiling(d, num, den) == (d * num + den * E6 - 1) \div (den * E6)

\* int(distance * num / den): truncation of a non-negative float
int(d, num, den) == (d * num) \div (den * E6)

\* Python's round(x * num / den, 1) in tenths, ties to the even digit
Round1(d, num, den) ==
    LET x == d * num
        m == den * 10^5
        q == x \div m
        r == x % m
    IN  IF 2 * r > m \/ (2 * r = m /\ q % 2 = 1) THEN q + 1 ELSE q

\* distance compared with a whole number of km
Km(k) == k * E6

\* an empty default
NoDefaultModes == <<>>

DefaultModes == <<"bus", "train", "metro", "walking", "cycling">>

MetroCities == {"Mumbai", "Delhi", "Bangalore", "Chennai", "Hyderabad", "Kolkata"}

Contains(list, m) == \E i \in 1..Len(list) : list[i] = m

\* the walking threshold used for the train
TrainOver5(d) == d > Km(5)

train_available(d) == d > Km(3)

\* metro only where a coordinate table exists
MetroOnlyMumbai(c) == c = "Mumbai"

metro_available(c) == c \in MetroCities

\* the cycling threshold used for walking
WalkingUnder10(d) == d < Km(10)

walking_available(d) == d < Km(5)

\* the walking threshold used for cycling
CyclingUnder5(d) == d < Km(5)

cycling_available(d) == d < Km(10)

Step(n, description, param, time) ==
    [step |-> n, description |-> description, param |-> param, time |-> time]

\* a bus fare that is never below a minimum
BusRouteMinimumFare(d) ==
    [mode |-> "bus",
     duration_minutes |-> int(d, 4, 1),
     distance_km |-> Round1(d, 13, 10),
     cost |-> IF int(d, 5, 1) < 5 THEN 5 ELSE int(d, 5, 1),
     emissions |-> Round1(d, 7, 10),
     transfers |-> IF d > Km(5) THEN 1 ELSE 0,
     congestion_level |-> 7,
     departure_frequency |-> "Every 10-15 minutes",
     route_steps |-> << Step(1, "Walk to nearest bus stop", 0, 5),
                        Step(2, "Take Bus Route", 100 + int(d, 1, 1), int(d, 3, 1)),
                        Step(3, "Walk to destination", 0, 5) >>]

BusRoute(d) ==
    [mode |-> "bus",
     duration_minutes |-> int(d, 4, 1),
     distance_km |-> Round1(d, 13, 10),
     cost |-> int(d, 5, 1),
     emissions |-> Round1(d, 7, 10),
     transfers |-> IF d > Km(5) THEN 1 ELSE 0,
     congestion_level |-> 7,
     departure_frequency |-> "Every 10-15 minutes",
     route_steps |-> << Step(1, "Walk to nearest bus stop", 0, 5),
                        Step(2, "Take Bus Route", 100 + int(d, 1, 1), int(d, 3, 1)),
                        Step(3, "Walk to destination", 0, 5) >>]

\* a congestion level that grows with the distance
TrainRouteCongestion(d, sc) ==
    [mode |-> "train",
     duration_minutes |-> int(d, 2, 1),
     distance_km |-> Round1(d, 12, 10),
     cost |-> int(d, 3, 1),
     emissions |-> Round1(d, 4, 10),
     transfers |-> IF d < Km(10) THEN 0 ELSE 1,
     congestion_level |-> IF d < Km(10) THEN 8 ELSE 12,
     departure_frequency |-> "Every 15-20 minutes",
     route_steps |-> << Step(1, "Walk to nearest railway station", 0, 8),
                        Step(2, IF sc[2] < 729000 THEN "Take Western Line train"
                                                  ELSE "Take Central Line train",
                             0, int(d, 15, 10)),
                        Step(3, "Walk to destination", 0, 10) >>]

TrainRoute(d, sc) ==
    [mode |-> "train",
     duration_minutes |-> int(d, 2, 1),
     distance_km |-> Round1(d, 12, 10),
     cost |-> int(d, 3, 1),
     emissions |-> Round1(d, 4, 10),
     transfers |-> IF d < Km(10) THEN 0 ELSE 1,
     congestion_level |-> 8,
     departure_frequency |-> "Every 15-20 minutes",
     route_steps |-> << Step(1, "Walk to nearest railway station", 0, 8),
                        Step(2, IF sc[2] < 729000 THEN "Take Western Line train"
                                                  ELSE "Take Central Line train",
                             0, int(d, 15, 10)),
                        Step(3, "Walk to destination", 0, 10) >>]

\* the train's transfer threshold used for the metro
MetroRouteTransfers10(d) ==
    [mode |-> "metro",
     duration_minutes |-> int(d, 15, 10),
     distance_km |-> Round1(d, 11, 10),
     cost |-> int(d, 4, 1),
     emissions |-> Round1(d, 2, 10),
     transfers |-> IF d < Km(10) THEN 0 ELSE 1,
     congestion_level |-> 6,
     departure_frequency |-> "Every 5-8 minutes",
     route_steps |-> << Step(1, "Walk to nearest metro station", 0, 6),
                        Step(2, "Take Metro Line 1", 0, int(d, 12, 10)),
                        Step(3, "Walk to destination", 0, 7) >>]

MetroRoute(d) ==
    [mode |-> "metro",
     duration_minutes |-> int(d, 15, 10),
     distance_km |-> Round1(d, 11, 10),
     cost |-> int(d, 4, 1),
     emissions |-> Round1(d, 2, 10),
     transfers |-> IF d < Km(8) THEN 0 ELSE 1,
     congestion_level |-> 6,
     departure_frequency |-> "Every 5-8 minutes",
     route_steps |-> << Step(1, "Walk to nearest metro station", 0, 6),
                        Step(2, "Take Metro Line 1", 0, int(d, 12, 10)),
                        Step(3, "Walk to destination", 0, 7) >>]

WalkingRoute(d) ==
    [mode |-> "walking",
     duration_minutes |-> int(d, 12, 1),
     distance_km |-> Round1(d, 1, 1),
     cost |-> 0,
     emissions |-> 0,
     transfers |-> 0,
     congestion_level |-> 1,
     departure_frequency |-> "On demand",
     route_steps |-> << Step(1, "Walk from start_location to end_location", 0,
                             int(d, 12, 1)) >>]

\* the rental fee starting at 5 km instead of 3 km
CyclingRouteFreeUnder5(d) ==
    [mode |-> "cycling",
     duration_minutes |-> int(d, 4, 1),
     distance_km |-> Round1(d, 105, 100),
     cost |-> IF d < Km(5) THEN 0 ELSE 20,
     emissions |-> 0,
     transfers |-> 0,
     congestion_level |-> 3,
     departure_frequency |-> "On demand",
     route_steps |-> << Step(1, "Pick up bicycle", 0, 3),
                        Step(2, "Cycle from start_location to end_location", 0,
                             int(d, 4, 1)) >>]

CyclingRoute(d) ==
    [mode |-> "cycling",
     duration_minutes |-> int(d, 4, 1),
     distance_km |-> Round1(d, 105, 100),
     cost |-> IF d < Km(3) THEN 0 ELSE 20,
     emissions |-> 0,
     transfers |-> 0,
     congestion_level |-> 3,
     departure_frequency |-> "On demand",
     route_steps |-> << Step(1, "Pick up bicycle", 0, 3),
                        Step(2, "Cycle from start_location to end_location", 0,
                             int(d, 4, 1)) >>]

\* a route list that outlives the call: the routes of the previous call stay in it
BuildRoutesKept(modes, c, d, sc) ==
    (IF calls = <<>> THEN <<>> ELSE calls[Len(calls)].result.routes)
    \o (IF Contains(modes, "bus") THEN <<BusRoute(d)>> ELSE <<>>)
    \o (IF Contains(modes, "train") /\ train_available(d)
        THEN <<TrainRoute(d, sc)>> ELSE <<>>)
    \o (IF Contains(modes, "metro") /\ metro_available(c)
        THEN <<MetroRoute(d)>> ELSE <<>>)
    \o (IF Contains(modes, "walking") /\ walking_available(d)
        THEN <<WalkingRoute(d)>> ELSE <<>>)
    \o (IF Contains(modes, "cycling") /\ cycling_available(d)
        THEN <<CyclingRoute(d)>> ELSE <<>>)

\* one route for every entry of the list, in the order of the list
RECURSIVE BuildRoutesPerEntry(_, _, _, _)
BuildRoutesPerEntry(modes, c, d, sc) ==
    IF modes = <<>> THEN <<>>
    ELSE (CASE Head(modes) = "bus" -> <<BusRoute(d)>>
            [] Head(modes) = "train" /\ train_available(d) -> <<TrainRoute(d, sc)>>
            [] Head(modes) = "metro" /\ metro_available(c) -> <<MetroRoute(d)>>
            [] Head(modes) = "walking" /\ walking_available(d) -> <<WalkingRoute(d)>>
            [] Head(modes) = "cycling" /\ cycling_available(d) -> <<CyclingRoute(d)>>
            [] OTHER -> <<>>)
         \o BuildRoutesPerEntry(Tail(modes), c, d, sc)

\* lines 246-347: the routes in construction order
BuildRoutes(modes, c, d, sc) ==
    (IF Contains(modes, "bus") THEN <<BusRoute(d)>> ELSE <<>>)
    \o (IF Contains(modes, "train") /\ train_available(d)
        THEN <<TrainRoute(d, sc)>> ELSE <<>>)
    \o (IF Contains(modes, "metro") /\ metro_available(c)
        THEN <<MetroRoute(d)>> ELSE <<>>)
    \o (IF Contains(modes, "walking") /\ walking_available(d)
        THEN <<WalkingRoute(d)>> ELSE <<>>)
    \o (IF Contains(modes, "cycling") /\ cycling_available(d)
        THEN <<CyclingRoute(d)>> ELSE <<>>)

\* insertion of r behind every element whose key is not larger (stable)
RECURSIVE InsertByDuration(_, _)
InsertByDuration(sorted, r) ==
    IF sorted = <<>> THEN <<r>>
    ELSE IF Head(sorted).duration_minutes <= r.duration_minutes
         THEN <<Head(sorted)>> \o InsertByDuration(Tail(sorted), r)
         ELSE <<r>> \o sorted

RECURSIVE SortFrom(_, _, _)
SortFrom(routes, i, sorted) ==
    IF i > Len(routes) THEN sorted
    ELSE SortFrom(routes, i + 1, InsertByDuration(sorted, routes[i]))

\* the sort left out
SortSkipped(routes) == routes

\* a sort that puts equal keys in the reverse of their order in the list
SortByDurationTiesReversed(routes) ==
    SortFrom([i \in 1..Len(routes) |-> routes[Len(routes) + 1 - i]], 1, <<>>)

\* routes.sort(key=lambda x: x["duration_minutes"]): a stable sort
SortByDuration(routes) == SortFrom(routes, 1, <<>>)

\* start and end echoed the wrong way round
MakeResultSwapped(s, e, c, routes) ==
    [start_location |-> e,
     end_location |-> s,
     city |-> c,
     total_routes |-> Len(routes),
     routes |-> routes]

\* the returned dictionary, lines 352-358
MakeResult(s, e, c, routes) ==
    [start_location |-> s,
     end_location |-> e,
     city |-> c,
     total_routes |-> Len(routes),
     routes |-> routes]

----------------------------------------------------------------------------
(* The arguments of a call.                                                *)

\* "CST"
L_CST == <<"C", "S", "T">>

\* "Chhatrapati Shivaji Terminus (CST)"
L_CSTerminus == <<"C", "h", "h", "a", "t", "r", "a", "p", "a", "t", "i", " ", "S", "h", "i", "v", "a", "j", "i", " ", "T", "e", "r", "m", "i", "n", "u", "s", " ", "(", "C", "S", "T", ")">>

\* "Dadar Railway Station"
L_DadarStation == <<"D", "a", "d", "a", "r", " ", "R", "a", "i", "l", "w", "a", "y", " ", "S", "t", "a", "t", "i", "o", "n">>

\* "Bandra Kurla Complex (BKC)"
L_BKC == <<"B", "a", "n", "d", "r", "a", " ", "K", "u", "r", "l", "a", " ", "C", "o", "m", "p", "l", "e", "x", " ", "(", "B", "K", "C", ")">>

\* "sion east"
L_sion == <<"s", "i", "o", "n", " ", "e", "a", "s", "t">>

\* "Kurla Bus Depot"
L_KurlaDepot == <<"K", "u", "r", "l", "a", " ", "B", "u", "s", " ", "D", "e", "p", "o", "t">>

\* ""
L_Empty == <<>>

\* "Central Station"
L_CentralStation == <<"C", "e", "n", "t", "r", "a", "l", " ", "S", "t", "a", "t", "i", "o", "n">>

\* "Downtown"
L_Downtown == <<"D", "o", "w", "n", "t", "o", "w", "n">>

\* "Airport"
L_Airport == <<"A", "i", "r", "p", "o", "r", "t">>

\* "University"
L_University == <<"U", "n", "i", "v", "e", "r", "s", "i", "t", "y">>

Labels ==
    {L_CST, L_CSTerminus, L_DadarStation, L_BKC, L_sion, L_KurlaDepot, L_Empty,
     L_CentralStation, L_Downtown, L_Airport, L_University}

\* cities of the sidebar: Mumbai has a coordinate table and a metro, the next
\* five a metro only, Pune and Thane neither
Cities ==
    {"Mumbai", "Delhi", "Bangalore", "Chennai", "Hyderabad", "Kolkata", "Pune", "Thane"}

\* transport_modes=None, the parameter's default
NoModes == <<"None">>

\* the checkbox selections tried: none, each mode alone, some pairs, all five
CheckboxSets ==
    {{}, {"bus"}, {"train"}, {"metro"}, {"walking"}, {"cycling"},
     {"train", "walking"}, {"metro", "cycling"}, {"train", "metro", "cycling"},
     {"bus", "train", "metro", "walking", "cycling"}}

\* the order in which the Route Planner appends the checked modes
CheckboxModes == <<"bus", "train", "metro", "walking", "cycling">>

\* the lists the Route Planner builds from its five checkboxes, the default
\* None, and lists only a direct caller can pass
ModeLists ==
    {SelectSeq(CheckboxModes, LAMBDA m : m \in S) : S \in CheckboxSets}
    \cup {NoModes, <<"cycling", "bus">>, <<"bus", "bus">>, <<"tram", "walking">>}

\* the variables of one call of calculate_routes
callVars ==
    <<start_location, end_location, city, transport_modes,
      start_coords, end_coords, distance, returned>>

\* the variables of a page of main.py or of the Route Planner
pageVars == <<session_state, sidebar, form, rendered>>

vars == <<callVars, pc, calls, pageVars>>

\* the value of a page variable while no page is running
NoPage == "no page"

NoPageRunning ==
    /\ session_state = NoPage
    /\ sidebar = NoPage
    /\ form = NoPage
    /\ rendered = <<>>

\* the body of calculate_routes(s, e, c, m), from entry to return
RunCalculateRoutes(s, e, c, m) ==
    /\ start_location' = s
    /\ end_location' = e
    /\ city' = c
    /\ transport_modes' = m
    /\ start_coords' = ResolveStart(Coordinates(c), s)
    /\ end_coords' = ResolveEnd(Coordinates(c), e)
    /\ distance' = haversine(start_coords'[1], start_coords'[2],
                             end_coords'[1], end_coords'[2])
    /\ LET modes == IF m = NoModes THEN DefaultModes ELSE m
           routes == SortByDuration(BuildRoutes(modes, c, distance', start_coords'))
       IN  returned' = <<MakeResult(s, e, c, routes)>>
    /\ calls' = Append(calls, [args |-> <<s, e, c, m>>, result |-> returned'[1]])

Init ==
    /\ start_location \in Labels
    /\ end_location \in Labels
    /\ city \in Cities
    /\ transport_modes \in ModeLists
    /\ pc = "call"
    /\ start_coords = None
    /\ end_coords = None
    /\ distance = 0
    /\ returned = <<>>
    /\ calls = <<>>
    /\ NoPageRunning

\* a direct call with the arguments drawn by Init
calculate_routes ==
    /\ pc = "call"
    /\ RunCalculateRoutes(start_location, end_location, city, transport_modes)
    /\ pc' = "done"
    /\ UNCHANGED pageVars

Next == calculate_routes

Spec == Init /\ [][Next]_vars

----------------------------------------------------------------------------
(* Repeated calls of calculate_routes by one process, with the sidebar's   *)
(* module-level city changing in between.                                  *)

\* number of calls in one behaviour
MaxCalls == 3

CallLabels == {L_CST, L_KurlaDepot}

CallCities == {"Mumbai", "Pune"}

CallModes == {NoModes, <<"walking", "bus">>}

InitCalls ==
    /\ start_location \in CallLabels
    /\ end_location = L_DadarStation
    /\ city \in CallCities
    /\ transport_modes \in CallModes
    /\ pc = "call"
    /\ start_coords = None
    /\ end_coords = None
    /\ distance = 0
    /\ returned = <<>>
    /\ calls = <<>>
    /\ session_state = NoPage
    /\ sidebar \in CallCities
    /\ form = NoPage
    /\ rendered = <<>>

\* the next call is entered: the parameters are bound anew, the locals are
\* fresh, and the sidebar may have another city selected by then
call_again ==
    /\ pc = "done"
    /\ Len(calls) < MaxCalls
    /\ start_location' \in CallLabels
    /\ end_location' = L_DadarStation
    /\ city' \in CallCities
    /\ transport_modes' \in CallModes
    /\ sidebar' \in CallCities
    /\ start_coords' = None
    /\ end_coords' = None
    /\ distance' = 0
    /\ returned' = <<>>
    /\ pc' = "call"
    /\ UNCHANGED <<calls, session_state, form, rendered>>

NextCalls == calculate_routes \/ call_again

SpecCalls == InitCalls /\ [][NextCalls]_vars

----------------------------------------------------------------------------
(* A call of calculate_routes followed by the call with start_location and *)
(* end_location exchanged.                                                 *)

SwapCities == {"Mumbai", "Delhi", "Pune"}

SwapModes == {NoModes, <<"train", "walking">>}

InitSwap ==
    /\ start_location \in Labels
    /\ end_location \in Labels
    /\ city \in SwapCities
    /\ transport_modes \in SwapModes
    /\ pc = "call"
    /\ start_coords = None
    /\ end_coords = None
    /\ distance = 0
    /\ returned = <<>>
    /\ calls = <<>>
    /\ NoPageRunning

\* the second call is entered with the two labels exchanged
call_swapped ==
    /\ pc = "done"
    /\ Len(calls) = 1
    /\ start_location' = end_location
    /\ end_location' = start_location
    /\ start_coords' = None
    /\ end_coords' = None
    /\ distance' = 0
    /\ returned' = <<>>
    /\ pc' = "call"
    /\ UNCHANGED <<city, transport_modes, calls, pageVars>>

NextSwap == calculate_routes \/ call_swapped

SpecSwap == InitSwap /\ [][NextSwap]_vars

----------------------------------------------------------------------------
(* The nested function haversine on the coordinate pairs of one mapping.   *)

InitHaversine ==
    /\ \E coordinates \in {MumbaiCoordinates, PlaceholderCoordinates} :
           \E i, j \in 1..Len(coordinates) :
               /\ start_coords = coordinates[i].coords
               /\ end_coords = coordinates[j].coords
    /\ pc = "haversine"
    /\ start_location = L_Empty
    /\ end_location = L_Empty
    /\ city = "Mumbai"
    /\ transport_modes = NoModes
    /\ distance = 0
    /\ returned = <<>>
    /\ calls = <<>>
    /\ NoPageRunning

\* line 243: distance = haversine(start_coords[0], start_coords[1], ...)
call_haversine ==
    /\ pc = "haversine"
    /\ distance' = haversine(start_coords[1], start_coords[2],
                             end_coords[1], end_coords[2])
    /\ pc' = "distance"
    /\ UNCHANGED <<start_location, end_location, city, transport_modes,
                   start_coords, end_coords, returned, calls, pageVars>>

NextHaversine == call_haversine

SpecHaversine == InitHaversine /\ [][NextHaversine]_vars

----------------------------------------------------------------------------
(* main.py: one browser session. Every interaction reruns the script from  *)
(* the top: the sidebar's selectors and their synchronisation with the     *)
(* session (lines 67-88), the sidebar's action buttons (90-135), the four  *)
(* tabs (142-574).                                                          *)

\* two of the cities of indian_cities (line 71); "Delhi" is the session's default
MainCities == {"Delhi", "Mumbai"}

Dates == {"2026-11-02", "2026-11-03"}

Times == {"09:00:00", "18:30:00"}

\* values of the two sliders and of the weather selectbox (lines 115-120);
\* traffic_congestion in tenths
SimulationParams ==
    [passenger_increase : {0, 50}, traffic_congestion : {10}, weather : {"Clear", "Rain"}]

DefaultSimulationParams ==
    [passenger_increase |-> 0, traffic_congestion |-> 10, weather |-> "Clear"]

NoButton == "no button"

Buttons == {"Refresh Data", "Optimize Routes", "Run Simulation"}

\* what backend.routes.optimize_route.get_optimized_route returns when it returns
get_optimized_route(c, dt) == [optimized_for |-> c, datetime |-> dt]

\* what RouteOptimizer().simulate_conditions returns when it returns
simulate_conditions(c, dt, params) ==
    [simulated_for |-> c, datetime |-> dt, params |-> params]

\* how the call of a button's handler ends
Outcomes(button) ==
    CASE button = "Optimize Routes" -> {"returns", "raises"}
      [] button = "Run Simulation" -> {"returns", "raises", "RouteOptimizer raises"}
      [] OTHER -> {"returns"}

\* a city synchronisation that forgets the simulation results
SyncCityKeepsSimulation(s, selected_city) ==
    IF selected_city # s.selected_city
    THEN [s EXCEPT !.selected_city = selected_city, !.optimized_routes = None]
    ELSE s

\* lines 74-77
SyncCity(s, selected_city) ==
    IF selected_city # s.selected_city
    THEN [s EXCEPT !.selected_city = selected_city,
                   !.optimized_routes = None,
                   !.simulation_results = None]
    ELSE s

\* a date and time synchronisation that keeps the optimized routes
SyncDateTimeKeepsRoutes(s, selected_date, selected_time) ==
    IF selected_date # s.selected_date \/ selected_time # s.selected_time
    THEN [s EXCEPT !.selected_date = selected_date,
                   !.selected_time = selected_time,
                   !.simulation_results = None]
    ELSE s

\* lines 84-88
SyncDateTime(s, selected_date, selected_time) ==
    IF selected_date # s.selected_date \/ selected_time # s.selected_time
    THEN [s EXCEPT !.selected_date = selected_date,
                   !.selected_time = selected_time,
                   !.optimized_routes = None,
                   !.simulation_results = None]
    ELSE s

\* a refresh that discards the results computed from the old data
RefreshDataClearsResults(s, out) ==
    [session |-> [s EXCEPT !.optimized_routes = None, !.simulation_results = None],
     rendered |-> out \o << <<"info", "Fetching latest transport data...">>,
                           <<"success", "Data updated successfully!">> >>,
     calls |-> <<>>]

\* lines 92-95
RefreshData(s, out) ==
    [session |-> s,
     rendered |-> out \o << <<"info", "Fetching latest transport data...">>,
                           <<"success", "Data updated successfully!">> >>,
     calls |-> <<>>]

\* a handler that assigns before it knows the call returned
OptimizeRoutesClearsOnError(s, w, outcome, out) ==
    LET dt == <<w.selected_date, w.selected_time>>
        call == [callee |-> "get_optimized_route", args |-> <<w.selected_city, dt>>,
                 outcome |-> outcome]
    IN  IF outcome = "returns"
        THEN [session |-> [s EXCEPT !.optimized_routes =
                                        <<get_optimized_route(w.selected_city, dt)>>],
              rendered |-> out \o << <<"success", "Route optimization completed!">> >>,
              calls |-> <<call>>]
        ELSE [session |-> [s EXCEPT !.optimized_routes = None],
              rendered |-> out \o << <<"error", "Error optimizing routes">> >>,
              calls |-> <<call>>]

\* lines 97-111: w holds the selections of this rerun
OptimizeRoutes(s, w, outcome, out) ==
    LET dt == <<w.selected_date, w.selected_time>>
        call == [callee |-> "get_optimized_route", args |-> <<w.selected_city, dt>>,
                 outcome |-> outcome]
    IN  IF outcome = "returns"
        THEN [session |-> [s EXCEPT !.optimized_routes =
                                        <<get_optimized_route(w.selected_city, dt)>>],
              rendered |-> out \o << <<"success", "Route optimization completed!">> >>,
              calls |-> <<call>>]
        ELSE [session |-> s,
              rendered |-> out \o << <<"error", "Error optimizing routes">> >>,
              calls |-> <<call>>]

\* lines 122-135
RunSimulation(s, w, params, outcome, out) ==
    LET dt == <<w.selected_date, w.selected_time>>
        shown == [s EXCEPT !.show_simulation = TRUE]
        failed == << <<"error", "Error running simulation">> >>
        constructed == [callee |-> "RouteOptimizer", args |-> <<>>, outcome |-> "returns"]
        simulate(o) == [callee |-> "simulate_conditions",
                        args |-> <<w.selected_city, dt, params>>, outcome |-> o]
    IN  CASE outcome = "RouteOptimizer raises" ->
                [session |-> shown,
                 rendered |-> out \o failed,
                 calls |-> <<[constructed EXCEPT !.outcome = "raises"]>>]
          [] outcome = "raises" ->
                [session |-> shown,
                 rendered |-> out \o failed,
                 calls |-> <<constructed, simulate("raises")>>]
          [] OTHER ->
                [session |-> [shown EXCEPT !.simulation_results =
                                  <<simulate_conditions(w.selected_city, dt, params)>>],
                 rendered |-> out \o << <<"success", "Simulation completed!">> >>,
                 calls |-> <<constructed, simulate("returns")>>]

\* lines 142-574: what the four tabs show; the Simulation tab shows the
\* simulation_params of this rerun (lines 442-444) and computes its metrics
\* from them (455-563)
Tabs(s, simulation_params) ==
    << <<"header", "Public Transport Network">>,
       <<"header", "Route Optimization Results">> >>
    \o (IF s.optimized_routes # None
        THEN << <<"subheader", "Optimized Routes Summary">> >>
        ELSE << <<"info", "Click 'Optimize Routes' in the sidebar">> >>)
    \o << <<"header", "Transport Network Insights">>,
          <<"header", "Transport Network Simulation">> >>
    \o (IF ~s.show_simulation
        THEN << <<"info", "Use the Simulation controls in the sidebar">> >>
        ELSE IF s.simulation_results # None
             THEN << <<"subheader", "Simulation Results">>,
                     <<"Simulation Parameters", simulation_params>> >>
             ELSE <<>>)

\* lines 46-57, before the first run's sidebar
InitMain ==
    /\ \E d \in Dates, t \in Times :
           /\ session_state = [selected_city |-> "Delhi",
                               selected_date |-> d,
                               selected_time |-> t,
                               optimized_routes |-> None,
                               show_simulation |-> FALSE,
                               simulation_results |-> None]
           /\ sidebar = [selected_city |-> "Delhi",
                         selected_date |-> d,
                         selected_time |-> t,
                         button |-> NoButton,
                         simulation_params |-> DefaultSimulationParams]
    /\ pc = "sidebar"
    /\ rendered = <<>>
    /\ calls = <<>>
    /\ form = NoPage
    /\ start_location = L_Empty
    /\ end_location = L_Empty
    /\ city = "Delhi"
    /\ transport_modes = NoModes
    /\ start_coords = None
    /\ end_coords = None
    /\ distance = 0
    /\ returned = <<>>

\* lines 67-88: a rerun starts, the selectors return the browser's selections
\* and the session is synchronised with them
sidebar_selection ==
    /\ pc = "sidebar"
    /\ \E c \in MainCities, d \in Dates, t \in Times :
           /\ sidebar' = [sidebar EXCEPT !.selected_city = c,
                                         !.selected_date = d,
                                         !.selected_time = t]
           /\ session_state' = SyncDateTime(SyncCity(session_state, c), d, t)
    /\ rendered' = <<>>
    /\ pc' = "actions"
    /\ UNCHANGED <<callVars, calls, form>>

\* lines 90-135: at most one button of the rerun is clicked
sidebar_actions ==
    /\ pc = "actions"
    /\ \E button \in Buttons \cup {NoButton}, params \in SimulationParams :
           \E outcome \in Outcomes(button) :
               LET w == [sidebar EXCEPT !.button = button,
                                        !.simulation_params = params]
                   after ==
                       CASE button = "Refresh Data" ->
                                RefreshData(session_state, rendered)
                         [] button = "Optimize Routes" ->
                                OptimizeRoutes(session_state, w, outcome, rendered)
                         [] button = "Run Simulation" ->
                                RunSimulation(session_state, w, params, outcome, rendered)
                         [] OTHER ->
                                [session |-> session_state,
                                 rendered |-> rendered,
                                 calls |-> <<>>]
               IN  /\ sidebar' = w
                   /\ session_state' = after.session
                   /\ rendered' = after.rendered
                   /\ calls' = after.calls
    /\ pc' = "tabs"
    /\ UNCHANGED <<callVars, form>>

\* lines 142-574
render_tabs ==
    /\ pc = "tabs"
    /\ rendered' = rendered \o Tabs(session_state, sidebar.simulation_params)
    /\ pc' = "sidebar"
    /\ UNCHANGED <<callVars, calls, session_state, sidebar, form>>

NextMain == sidebar_selection \/ sidebar_actions \/ render_tabs

SpecMain == InitMain /\ [][NextMain]_vars

----------------------------------------------------------------------------
(* app.py, Route Planner: the location list, the form and the handler of   *)
(* its submit button.                                                      *)

\* lines 66-76: city_coordinates of get_current_location, unit 1e-4 degree
city_coordinates ==
    [Mumbai |-> <<190760, 728777>>,
     Delhi |-> <<286139, 772090>>,
     Bangalore |-> <<129716, 775946>>,
     Chennai |-> <<130827, 802707>>,
     Hyderabad |-> <<173850, 784867>>,
     Kolkata |-> <<225726, 883639>>,
     Pune |-> <<185204, 738567>>,
     Ahmedabad |-> <<230225, 725714>>,
     Jaipur |-> <<269124, 757873>>]

\* lines 89-140: city_infrastructure, lat and lon in 1e-4 degree
MumbaiInfrastructure ==
    [railway_stations |-> <<
          [name |-> <<"C", "h", "h", "a", "t", "r", "a", "p", "a", "t", "i", " ", "S",
                      "h", "i", "v", "a", "j", "i", " ", "T", "e", "r", "m", "i", "n",
                      "u", "s", " ", "(", "C", "S", "T", ")">>,
            lat |-> 189402, lon |-> 728351],
          [name |-> <<"D", "a", "d", "a", "r", " ", "R", "a", "i", "l", "w", "a", "y",
                      " ", "S", "t", "a", "t", "i", "o", "n">>,
            lat |-> 190211, lon |-> 728426],
          [name |-> <<"L", "o", "k", "m", "a", "n", "y", "a", " ", "T", "i", "l", "a",
                      "k", " ", "T", "e", "r", "m", "i", "n", "u", "s">>,
            lat |-> 190712, lon |-> 728889],
          [name |-> <<"M", "u", "m", "b", "a", "i", " ", "C", "e", "n", "t", "r", "a",
                      "l">>,
            lat |-> 189712, lon |-> 728213],
          [name |-> <<"B", "a", "n", "d", "r", "a", " ", "T", "e", "r", "m", "i", "n",
                      "u", "s">>,
            lat |-> 190596, lon |-> 728295] >>,
     airports |-> <<
          [name |-> <<"C", "h", "h", "a", "t", "r", "a", "p", "a", "t", "i", " ", "S",
                      "h", "i", "v", "a", "j", "i", " ", "I", "n", "t", "e", "r", "n",
                      "a", "t", "i", "o", "n", "a", "l", " ", "A", "i", "r", "p", "o",
                      "r", "t">>,
            lat |-> 190896, lon |-> 728656] >>,
     bus_stations |-> <<
          [name |-> <<"M", "u", "m", "b", "a", "i", " ", "C", "e", "n", "t", "r", "a",
                      "l", " ", "B", "u", "s", " ", "D", "e", "p", "o", "t">>,
            lat |-> 189693, lon |-> 728198],
          [name |-> <<"D", "a", "d", "a", "r", " ", "B", "u", "s", " ", "D", "e", "p",
                      "o", "t">>,
            lat |-> 190178, lon |-> 728478],
          [name |-> <<"B", "o", "r", "i", "v", "a", "l", "i", " ", "B", "u", "s", " ",
                      "D", "e", "p", "o", "t">>,
            lat |-> 192278, lon |-> 728620],
          [name |-> <<"T", "h", "a", "n", "e", " ", "B", "u", "s", " ", "D", "e", "p",
                      "o", "t">>,
            lat |-> 191943, lon |-> 729627],
          [name |-> <<"K", "u", "r", "l", "a", " ", "B", "u", "s", " ", "D", "e", "p",
                      "o", "t">>,
            lat |-> 190703, lon |-> 728810] >>,
     metro_stations |-> <<
          [name |-> <<"G", "h", "a", "t", "k", "o", "p", "a", "r", " ", "M", "e", "t",
                      "r", "o", " ", "S", "t", "a", "t", "i", "o", "n">>,
            lat |-> 190866, lon |-> 729093],
          [name |-> <<"A", "n", "d", "h", "e", "r", "i", " ", "M", "e", "t", "r", "o",
                      " ", "S", "t", "a", "t", "i", "o", "n">>,
            lat |-> 191197, lon |-> 728464],
          [name |-> <<"V", "e", "r", "s", "o", "v", "a", " ", "M", "e", "t", "r", "o",
                      " ", "S", "t", "a", "t", "i", "o", "n">>,
            lat |-> 191344, lon |-> 728186],
          [name |-> <<"S", "a", "k", "i", " ", "N", "a", "k", "a", " ", "M", "e", "t",
                      "r", "o", " ", "S", "t", "a", "t", "i", "o", "n">>,
            lat |-> 190984, lon |-> 728889] >>]

DelhiInfrastructure ==
    [railway_stations |-> <<
          [name |-> <<"N", "e", "w", " ", "D", "e", "l", "h", "i", " ", "R", "a", "i",
                      "l", "w", "a", "y", " ", "S", "t", "a", "t", "i", "o", "n">>,
            lat |-> 286425, lon |-> 772198],
          [name |-> <<"O", "l", "d", " ", "D", "e", "l", "h", "i", " ", "R", "a", "i",
                      "l", "w", "a", "y", " ", "S", "t", "a", "t", "i", "o", "n">>,
            lat |-> 286586, lon |-> 772284],
          [name |-> <<"H", "a", "z", "r", "a", "t", " ", "N", "i", "z", "a", "m", "u",
                      "d", "d", "i", "n", " ", "R", "a", "i", "l", "w", "a", "y", " ",
                      "S", "t", "a", "t", "i", "o", "n">>,
            lat |-> 285877, lon |-> 772518],
          [name |-> <<"A", "n", "a", "n", "d", " ", "V", "i", "h", "a", "r", " ", "T",
                      "e", "r", "m", "i", "n", "a", "l">>,
            lat |-> 286472, lon |-> 773016],
          [name |-> <<"D", "e", "l", "h", "i", " ", "S", "a", "r", "a", "i", " ", "R",
                      "o", "h", "i", "l", "l", "a">>,
            lat |-> 286653, lon |-> 771927] >>,
     airports |-> <<
          [name |-> <<"I", "n", "d", "i", "r", "a", " ", "G", "a", "n", "d", "h", "i",
                      " ", "I", "n", "t", "e", "r", "n", "a", "t", "i", "o", "n", "a",
                      "l", " ", "A", "i", "r", "p", "o", "r", "t">>,
            lat |-> 285561, lon |-> 770998] >>,
     bus_stations |-> <<
          [name |-> <<"I", "S", "B", "T", " ", "K", "a", "s", "h", "m", "e", "r", "e",
                      " ", "G", "a", "t", "e">>,
            lat |-> 286680, lon |-> 772304],
          [name |-> <<"I", "S", "B", "T", " ", "A", "n", "a", "n", "d", " ", "V", "i",
                      "h", "a", "r">>,
            lat |-> 286462, lon |-> 772821],
          [name |-> <<"I", "S", "B", "T", " ", "S", "a", "r", "a", "i", " ", "K", "a",
                      "l", "e", " ", "K", "h", "a", "n">>,
            lat |-> 285903, lon |-> 772495],
          [name |-> <<"D", "h", "a", "u", "l", "a", " ", "K", "u", "a", "n", " ", "B",
                      "u", "s", " ", "T", "e", "r", "m", "i", "n", "a", "l">>,
            lat |-> 285921, lon |-> 771536] >>,
     metro_stations |-> <<
          [name |-> <<"R", "a", "j", "i", "v", " ", "C", "h", "o", "w", "k", " ", "M",
                      "e", "t", "r", "o", " ", "S", "t", "a", "t", "i", "o", "n">>,
            lat |-> 286333, lon |-> 772195],
          [name |-> <<"C", "e", "n", "t", "r", "a", "l", " ", "S", "e", "c", "r", "e",
                      "t", "a", "r", "i", "a", "t", " ", "M", "e", "t", "r", "o", " ",
                      "S", "t", "a", "t", "i", "o", "n">>,
            lat |-> 286147, lon |-> 772117],
          [name |-> <<"K", "a", "s", "h", "m", "e", "r", "e", " ", "G", "a", "t", "e",
                      " ", "M", "e", "t", "r", "o", " ", "S", "t", "a", "t", "i", "o",
                      "n">>,
            lat |-> 286674, lon |-> 772295],
          [name |-> <<"H", "a", "u", "z", " ", "K", "h", "a", "s", " ", "M", "e", "t",
                      "r", "o", " ", "S", "t", "a", "t", "i", "o", "n">>,
            lat |-> 285432, lon |-> 772044] >>]

city_infrastructure == [Mumbai |-> MumbaiInfrastructure, Delhi |-> DelhiInfrastructure]

\* lines 386-388
landmarks ==
    << <<"C", "S", "T">>,
       <<"D", "a", "d", "a", "r">>,
       <<"A", "n", "d", "h", "e", "r", "i">>,
       <<"B", "o", "r", "i", "v", "a", "l", "i">>,
       <<"T", "h", "a", "n", "e">>,
       <<"B", "a", "n", "d", "r", "a">>,
       <<"K", "u", "r", "l", "a">>,
       <<"P", "o", "w", "a", "i">>,
       <<"G", "h", "a", "t", "k", "o", "p", "a", "r">>,
       <<"W", "o", "r", "l", "i">>,
       <<"B", "K", "C">>,
       <<"J", "u", "h", "u">>,
       <<"C", "h", "e", "m", "b", "u", "r">>,
       <<"S", "i", "o", "n">>,
       <<"V", "e", "r", "s", "o", "v", "a">>,
       <<"V", "a", "s", "h", "i">>,
       <<"M", "u", "l", "u", "n", "d">>,
       <<"G", "o", "r", "e", "g", "a", "o", "n">>,
       <<"K", "a", "n", "d", "i", "v", "a", "l", "i">> >>

\* line 393
DefaultLocations ==
    << <<"D", "o", "w", "n", "t", "o", "w", "n">>,
       <<"A", "i", "r", "p", "o", "r", "t">>,
       <<"C", "e", "n", "t", "r", "a", "l", " ", "S", "t", "a", "t", "i",
         "o", "n">>,
       <<"U", "n", "i", "v", "e", "r", "s", "i", "t", "y">>,
       <<"M", "a", "l", "l">>,
       <<"B", "u", "s", "i", "n", "e", "s", "s", " ", "D", "i", "s", "t",
         "r", "i", "c", "t">> >>

\* "Current Location"
L_CurrentLocation == <<"C", "u", "r", "r", "e", "n", "t", " ", "L", "o", "c", "a", "t", "i", "o", "n">>

\* "New Delhi Railway Station"
L_NewDelhi == <<"N", "e", "w", " ", "D", "e", "l", "h", "i", " ", "R", "a", "i", "l", "w", "a", "y", " ", "S", "t", "a", "t", "i", "o", "n">>

\* "Rajiv Chowk Metro Station"
L_RajivChowk == <<"R", "a", "j", "i", "v", " ", "C", "h", "o", "w", "k", " ", "M", "e", "t", "r", "o", " ", "S", "t", "a", "t", "i", "o", "n">>

\* the characters of the labels, by code point
CodePoints ==
    <<" ", "(", ")", ",", ".",
      "0", "1", "2", "3", "4", "5", "6", "7", "8", "9",
      "A", "B", "C", "D", "E", "F", "G", "H", "I", "J", "K", "L", "M",
      "N", "O", "P", "Q", "R", "S", "T", "U", "V", "W", "X", "Y", "Z",
      "a", "b", "c", "d", "e", "f", "g", "h", "i", "j", "k", "l", "m",
      "n", "o", "p", "q", "r", "s", "t", "u", "v", "w", "x", "y", "z">>

\* ord
Ord ==
    [ch \in {CodePoints[k] : k \in 1..Len(CodePoints)} |->
        CHOOSE k \in 1..Len(CodePoints) : CodePoints[k] = ch]

\* Python's  a < b  on strings
StrLess(a, b) ==
    \E i \in 1..(Len(b)) :
        /\ \A k \in 1..(i - 1) : k <= Len(a) /\ a[k] = b[k]
        /\ \/ i > Len(a)
           \/ Ord[a[i]] < Ord[b[i]]

\* sorted(S) for a set S of strings
RECURSIVE sorted(_)
sorted(S) ==
    IF S = {} THEN <<>>
    ELSE LET least == CHOOSE x \in S : \A y \in S \ {x} : StrLess(x, y)
         IN  <<least>> \o sorted(S \ {least})

\* str(n) for n >= 0
Digits == <<"0", "1", "2", "3", "4", "5", "6", "7", "8", "9">>

Digit(k) == Digits[k + 1]

RECURSIVE str(_)
str(n) == IF n < 10 THEN <<Digit(n)>> ELSE str(n \div 10) \o <<Digit(n % 10)>>

\* f"{x:.4f}" of a coordinate x >= 0 held in 1e-4 degree
Format4(x) ==
    str(x \div E4) \o <<".">>
    \o <<Digit((x \div 1000) % 10), Digit((x \div 100) % 10),
         Digit((x \div 10) % 10), Digit(x % 10)>>

\* lines 63-79, with the sidebar's city c
get_current_location(c) ==
    IF c \in DOMAIN city_coordinates THEN city_coordinates[c] ELSE <<205937, 789629>>

\* line 502: f"Your Location ({current_coords[0]:.4f}, {current_coords[1]:.4f})"
YourLocation(current_coords) ==
    <<"Y", "o", "u", "r", " ", "L", "o", "c", "a", "t", "i", "o", "n", " ", "(">>
    \o Format4(current_coords[1]) \o <<",", " ">> \o Format4(current_coords[2]) \o <<")">>

\* lines 82-151
load_transport_infrastructure(selected_city) ==
    IF selected_city \in DOMAIN city_infrastructure
    THEN city_infrastructure[selected_city]
    ELSE [railway_stations |-> <<>>,
          airports |-> <<>>,
          bus_stations |-> <<>>,
          metro_stations |-> <<>>]

Names(stations) == [i \in 1..Len(stations) |-> stations[i].name]

\* a location list without the default locations
all_locationsNoDefault(infrastructure, c) ==
    LET listed == Names(infrastructure.railway_stations)
                  \o Names(infrastructure.metro_stations)
                  \o Names(infrastructure.bus_stations)
                  \o Names(infrastructure.airports)
                  \o (IF c = "Mumbai" THEN landmarks ELSE <<>>)
    IN  <<L_CurrentLocation>> \o sorted({listed[i] : i \in 1..Len(listed)})

\* lines 371-396
all_locations(infrastructure, c) ==
    LET listed == Names(infrastructure.railway_stations)
                  \o Names(infrastructure.metro_stations)
                  \o Names(infrastructure.bus_stations)
                  \o Names(infrastructure.airports)
                  \o (IF c = "Mumbai" THEN landmarks ELSE <<>>)
        offered == IF listed = <<>> THEN DefaultLocations ELSE listed
    IN  <<L_CurrentLocation>> \o sorted({offered[i] : i \in 1..Len(offered)})

\* four of the cities of the sidebar (lines 49-60): infrastructure and
\* coordinates, infrastructure only, neither, and no entry in city_coordinates
PlannerCities == {"Mumbai", "Delhi", "Pune", "Thane"}

\* the entries a user picks in the two selectboxes, where the list has them
PlannerPicks ==
    {L_CurrentLocation, L_CST, L_CSTerminus, L_DadarStation, L_KurlaDepot,
     L_NewDelhi, L_RajivChowk, L_CentralStation, L_Downtown, L_University}

\* the texts typed into the two custom fields; L_Empty is a field left empty
CustomStarts == {L_Empty, L_sion}

CustomEnds == {L_Empty, L_BKC}

\* the checked ones of the five mode checkboxes
PlannerModeSets ==
    {{}, {"walking"}, {"train"}, {"bus", "cycling"},
     {"bus", "train", "metro", "walking", "cycling"}}

Offered(c) ==
    LET offered == all_locations(load_transport_infrastructure(c), c)
    IN  {offered[i] : i \in 1..Len(offered)}

\* str.capitalize on the five mode names
Capitalize ==
    [bus |-> "Bus", train |-> "Train", metro |-> "Metro",
     walking |-> "Walking", cycling |-> "Cycling"]

\* a page that reports success whatever total_routes is
RoutesOutcomeAlwaysFound(result, c) ==
    IF result.total_routes >= 0
    THEN << <<"success", "Found routes">>, <<"subheader", "Route Map">> >>
         \o (IF c = "Mumbai" THEN << <<"map", "route_points">> >> ELSE <<>>)
         \o << <<"subheader", "Available Routes">> >>
         \o [i \in 1..Len(result.routes) |-> <<"tab", Capitalize[result.routes[i].mode]>>]
    ELSE << <<"error", "No routes found">> >>

\* lines 508-579: what is rendered for the dictionary calculate_routes returned
RoutesOutcome(result, c) ==
    IF result.total_routes > 0
    THEN << <<"success", "Found routes">>, <<"subheader", "Route Map">> >>
         \o (IF c = "Mumbai" THEN << <<"map", "route_points">> >> ELSE <<>>)
         \o << <<"subheader", "Available Routes">> >>
         \o [i \in 1..Len(result.routes) |-> <<"tab", Capitalize[result.routes[i].mode]>>]
    ELSE << <<"error", "No routes found">> >>

\* the sidebar's selections and the form's widgets as the browser holds them
\* when the script runs; the widgets of the starting point exist only while
\* the checkbox is clear
InitPlanner ==
    /\ \E c \in PlannerCities :
           /\ sidebar = [app_mode |-> "Route Planner", city |-> c]
           /\ \E use \in BOOLEAN,
                 s \in Offered(c) \cap PlannerPicks, cs \in CustomStarts,
                 e \in Offered(c) \cap PlannerPicks, ce \in CustomEnds,
                 modes \in PlannerModeSets, submit \in BOOLEAN :
                  /\ use => s = L_CurrentLocation /\ cs = L_Empty
                  /\ form = [use_current_location |-> use,
                             start_location_select |-> s,
                             custom_start |-> cs,
                             end_location_select |-> e,
                             custom_end |-> ce,
                             modes |-> modes,
                             submit_button |-> submit,
                             infrastructure |-> <<>>,
                             all_locations |-> <<>>,
                             start_location |-> L_Empty,
                             end_location |-> L_Empty]
    /\ pc = "form"
    /\ rendered = <<>>
    /\ calls = <<>>
    /\ session_state = NoPage
    /\ start_location = L_Empty
    /\ end_location = L_Empty
    /\ city = "Mumbai"
    /\ transport_modes = NoModes
    /\ start_coords = None
    /\ end_coords = None
    /\ distance = 0
    /\ returned = <<>>

\* lines 361-479: the location list and the form
route_planner_form ==
    /\ pc = "form"
    /\ form' = [form EXCEPT
                   !.infrastructure = load_transport_infrastructure(sidebar.city),
                   !.all_locations =
                       all_locations(load_transport_infrastructure(sidebar.city),
                                     sidebar.city),
                   !.start_location =
                       IF form.use_current_location THEN L_CurrentLocation
                       ELSE IF form.custom_start # L_Empty THEN form.custom_start
                       ELSE form.start_location_select,
                   !.end_location =
                       IF form.custom_end # L_Empty THEN form.custom_end
                       ELSE form.end_location_select]
    /\ rendered' =
           << <<"header", "Public Transport Route Planner">> >>
           \o (IF form.use_current_location
               THEN << <<"info", "Using your current location as the starting point.">> >>
               ELSE <<>>)
    /\ pc' = "submit"
    /\ UNCHANGED <<callVars, calls, session_state, sidebar>>

\* a test for None where the list is empty
NoModeSelectedIsNone(modes) == modes = NoModes

\* line 497: not transport_modes
NoModeSelected(modes) == modes = <<>>

\* lines 481-579: the handler of the form's submit button
find_routes ==
    /\ pc = "submit"
    /\ LET modes == SelectSeq(CheckboxModes, LAMBDA m : m \in form.modes)
           start == IF form.start_location = L_CurrentLocation
                    THEN YourLocation(get_current_location(sidebar.city))
                    ELSE form.start_location
       IN  IF ~form.submit_button
           THEN UNCHANGED <<callVars, calls, rendered>>
           ELSE IF NoModeSelected(modes)
           THEN /\ rendered' = rendered \o
                       << <<"error", "Please select at least one transport mode.">> >>
                /\ UNCHANGED <<callVars, calls>>
           ELSE /\ RunCalculateRoutes(start, form.end_location, sidebar.city, modes)
                /\ rendered' = rendered \o RoutesOutcome(returned'[1], sidebar.city)
    /\ pc' = "page"
    /\ UNCHANGED <<session_state, sidebar, form>>

NextPlanner == route_planner_form \/ find_routes

SpecPlanner == InitPlanner /\ [][NextPlanner]_vars

----------------------------------------------------------------------------
(* Properties.                                                             *)

Done == pc = "done"

Res == returned[1]

Routes == returned[1].routes

Has(m) == \E i \in 1..Len(Routes) : Routes[i].mode = m

Requested(m) ==
    IF transport_modes = <<"None">>
    THEN m \in {"bus", "train", "metro", "walking", "cycling"}
    ELSE \E i \in 1..Len(transport_modes) : transport_modes[i] = m

AllFiveRequested == \A m \in {"bus", "train", "metro", "walking", "cycling"} : Requested(m)

\* C1: the returned routes are ordered by non-decreasing duration_minutes
C1_SortedByDuration ==
    Done => \A i \in 1..(Len(Routes) - 1) :
                Routes[i].duration_minutes <= Routes[i + 1].duration_minutes

\* a call whose construction order (bus first) was not the sorted order
C1_Witness ==
    /\ Done
    /\ Has("bus")
    /\ Len(Routes) >= 3
    /\ Routes[1].mode # "bus"
    /\ Routes[1].duration_minutes < Routes[Len(Routes)].duration_minutes

\* C2: of the requested modes, walking is returned iff d < 5, train iff d > 3,
\* cycling iff d < 10, and bus always
C2_Availability ==
    Done =>
        /\ Requested("walking") => (Has("walking") <=> distance < 5000000)
        /\ Requested("train") => (Has("train") <=> distance > 3000000)
        /\ Requested("cycling") => (Has("cycling") <=> distance < 10000000)
        /\ Requested("bus") => Has("bus")

\* all five requested at a distance where walking is refused, train and cycling are not
C2_Witness ==
    /\ Done
    /\ AllFiveRequested
    /\ distance >= 5000000
    /\ distance < 10000000
    /\ ~Has("walking")
    /\ Has("train")
    /\ Has("cycling")
    /\ Has("bus")

\* C3: a requested metro route is returned iff the city is one of the six metro
\* cities, whatever the distance and whether or not the city has its own table
C3_Metro ==
    (Done /\ Requested("metro")) =>
        (Has("metro") <=>
            city \in {"Mumbai", "Delhi", "Bangalore", "Chennai", "Hyderabad", "Kolkata"})

\* a metro route in a city without a coordinate table, at a distance over 10 km
C3_Witness ==
    /\ Done
    /\ city = "Kolkata"
    /\ Has("metro")
    /\ distance > 10000000

\* the documented coefficient of a mode's duration, in tenths
DurationCoef(m) ==
    CASE m = "bus" -> 40
      [] m = "train" -> 20
      [] m = "metro" -> 15
      [] m = "walking" -> 120
      [] m = "cycling" -> 40

\* the documented coefficient of a mode's cost, in tenths
CostCoef(m) ==
    CASE m = "bus" -> 50
      [] m = "train" -> 30
      [] m = "metro" -> 40

\* round(coef * d) to the nearest integer (ties to even), coef in tenths
RoundNearest(d, coef10) ==
    LET x == d * coef10
        q == x \div 10000000
        r == x % 10000000
    IN  IF 2 * r > 10000000 \/ (2 * r = 10000000 /\ q % 2 = 1) THEN q + 1 ELSE q

\* n is coef * d with the fraction dropped
IsTruncation(n, d, coef10) ==
    /\ n * 10000000 <= d * coef10
    /\ d * coef10 < (n + 1) * 10000000

\* C4 as stated: duration_minutes is the coefficient times d rounded to nearest
C4_DurationRounded ==
    Done => \A i \in 1..Len(Routes) :
                Routes[i].duration_minutes
                    = RoundNearest(distance, DurationCoef(Routes[i].mode))

\* C4 amended: duration_minutes is the coefficient times d with the fraction
\* dropped (rounded down)
C4_DurationTruncated ==
    Done => \A i \in 1..Len(Routes) :
                IsTruncation(Routes[i].duration_minutes, distance,
                             DurationCoef(Routes[i].mode))

\* a route whose duration differs from the nearest integer
C4_Witness ==
    /\ Done
    /\ \E i \in 1..Len(Routes) :
          Routes[i].duration_minutes
              # RoundNearest(distance, DurationCoef(Routes[i].mode))

\* C5 as stated: the cost of bus, train and metro is round(5d), round(3d), round(4d)
C5_CostRounded ==
    Done => \A i \in 1..Len(Routes) :
                Routes[i].mode \in {"bus", "train", "metro"} =>
                    Routes[i].cost = RoundNearest(distance, CostCoef(Routes[i].mode))

\* C5 amended: the cost of bus, train and metro is 5d, 3d and 4d with the
\* fraction dropped
C5_CostTruncated ==
    Done => \A i \in 1..Len(Routes) :
                Routes[i].mode \in {"bus", "train", "metro"} =>
                    IsTruncation(Routes[i].cost, distance, CostCoef(Routes[i].mode))

\* a bus, train or metro route whose cost differs from the nearest integer
C5_Witness ==
    /\ Done
    /\ \E i \in 1..Len(Routes) :
          /\ Routes[i].mode \in {"bus", "train", "metro"}
          /\ Routes[i].cost # RoundNearest(distance, CostCoef(Routes[i].mode))

DurationOf(m) == Routes[CHOOSE i \in 1..Len(Routes) : Routes[i].mode = m].duration_minutes

\* the Mumbai example: start contains "CST", end contains "Dadar", all five modes
C6_Example ==
    /\ Done
    /\ city = "Mumbai"
    /\ In(<<"c", "s", "t">>, lower(start_location))
    /\ In(<<"d", "a", "d", "a", "r">>, lower(end_location))
    /\ AllFiveRequested

\* C6 as stated: bus about 36 min, train about 18 min, metro 14 min, no
\* walking, no cycling, metro first
C6_ExampleAsStated ==
    C6_Example =>
        /\ distance >= 9000000 /\ distance <= 9200000
        /\ Has("bus") /\ DurationOf("bus") \in 35..37
        /\ Has("train") /\ DurationOf("train") \in 17..19
        /\ Has("metro") /\ DurationOf("metro") = 14
        /\ ~Has("walking")
        /\ ~Has("cycling")
        /\ Routes[1].mode = "metro"

\* C6 amended: with start resolved to CST and end to Dadar, d is between 9.0
\* and 9.2 km, bus takes 36 min, train 18 min, metro 13 min, there is no
\* walking route, there is a cycling route of 36 min, and metro is first
C6_ExampleAmended ==
    (C6_Example /\ start_coords = <<189402, 728351>> /\ end_coords = <<190211, 728426>>) =>
        /\ distance >= 9000000 /\ distance <= 9200000
        /\ Has("bus") /\ DurationOf("bus") = 36
        /\ Has("train") /\ DurationOf("train") = 18
        /\ Has("metro") /\ DurationOf("metro") = 13
        /\ ~Has("walking")
        /\ Has("cycling") /\ DurationOf("cycling") = 36
        /\ Routes[1].mode = "metro"

\* the example's call, made with the station name of the location list
C6_Witness ==
    /\ C6_Example
    /\ start_coords = <<189402, 728351>>
    /\ end_coords = <<190211, 728426>>
    /\ Len(start_location) > 3
    /\ Len(Routes) = 4

\* key i of the city's mapping is, case-insensitively, a substring of the label
Match(i, label) == In(lower(Coordinates(city)[i].name), lower(label))

NoMatch(label) == \A i \in 1..Len(Coordinates(city)) : ~Match(i, label)

\* the first and last entry of the two mappings
FirstEntry == IF city = "Mumbai" THEN <<189402, 728351>> ELSE <<200000, 770000>>

LastEntry == IF city = "Mumbai" THEN <<192065, 728570>> ELSE <<200800, 770800>>

\* C7 as stated: a label resolves to the coordinates of a key whenever that key
\* is a substring of it, an unmatched start to the first entry and an unmatched
\* end to the last entry
C7_ResolutionAsStated ==
    Done =>
        /\ \A i \in 1..Len(Coordinates(city)) :
              /\ Match(i, start_location) => start_coords = Coordinates(city)[i].coords
              /\ Match(i, end_location) => end_coords = Coordinates(city)[i].coords
        /\ NoMatch(start_location) => start_coords = FirstEntry
        /\ NoMatch(end_location) => end_coords = LastEntry

\* key i is the last key of the mapping, in mapping order, that matches the label
LastMatch(i, label) ==
    /\ Match(i, label)
    /\ \A j \in (i + 1)..Len(Coordinates(city)) : ~Match(j, label)

\* C7 amended: a label resolves to the coordinates of the last key, in mapping
\* order, that is a substring of it; the rest as stated
C7_ResolutionLastMatch ==
    Done =>
        /\ \A i \in 1..Len(Coordinates(city)) :
              /\ LastMatch(i, start_location) => start_coords = Coordinates(city)[i].coords
              /\ LastMatch(i, end_location) => end_coords = Coordinates(city)[i].coords
        /\ NoMatch(start_location) => start_coords = FirstEntry
        /\ NoMatch(end_location) => end_coords = LastEntry

\* a start label that two keys match and an empty end label
C7_Witness ==
    /\ Done
    /\ \E i, j \in 1..Len(Coordinates(city)) :
          /\ i < j
          /\ Match(i, start_location)
          /\ Match(j, start_location)
          /\ start_coords = Coordinates(city)[j].coords
          /\ start_coords # Coordinates(city)[i].coords
    /\ end_location = <<>>
    /\ end_coords = LastEntry

\* C8: for a city other than Mumbai and transport_modes left at its default,
\* the call returns at least one route, from placeholder coordinates
C8_PlaceholderNonEmpty ==
    (Done /\ city # "Mumbai" /\ transport_modes = <<"None">>) =>
        /\ Res.total_routes >= 1
        /\ Len(Routes) >= 1
        /\ \E i \in 1..Len(PlaceholderCoordinates) :
              start_coords = PlaceholderCoordinates[i].coords
        /\ \E i \in 1..Len(PlaceholderCoordinates) :
              end_coords = PlaceholderCoordinates[i].coords

\* a default-mode call for a city without table or metro, neither label matching
C8_Witness ==
    /\ Done
    /\ city = "Pune"
    /\ transport_modes = <<"None">>
    /\ NoMatch(start_location)
    /\ NoMatch(end_location)
    /\ Res.total_routes >= 1

\* the availability predicate of a mode string
Passes(m) ==
    CASE m = "bus" -> TRUE
      [] m = "train" -> distance > 3000000
      [] m = "metro" -> city \in {"Mumbai", "Delhi", "Bangalore", "Chennai", "Hyderabad", "Kolkata"}
      [] m = "walking" -> distance < 5000000
      [] m = "cycling" -> distance < 10000000
      [] OTHER -> FALSE

NonePasses ==
    \A m \in {"bus", "train", "metro", "walking", "cycling", "tram"} :
        Requested(m) => ~Passes(m)

\* C9: when no requested mode passes its availability predicate the call
\* returns routes = [] and total_routes = 0
C9_EmptyResult ==
    (Done /\ NonePasses) => (Routes = <<>> /\ Res.total_routes = 0)

\* only walking requested at 5 km or more
C9_Witness ==
    /\ Done
    /\ transport_modes = <<"walking">>
    /\ distance >= 5000000
    /\ Routes = <<>>
    /\ Res.total_routes = 0

\* C10: the result echoes start_location, end_location and city unchanged and
\* total_routes is the length of routes
C10_Echo ==
    Done =>
        /\ Res.start_location = start_location
        /\ Res.end_location = end_location
        /\ Res.city = city
        /\ Res.total_routes = Len(Res.routes)

\* a call with different labels, one in mixed case, returning several routes
C10_Witness ==
    /\ Done
    /\ start_location # end_location
    /\ lower(start_location) # start_location
    /\ Res.start_location = start_location
    /\ Res.total_routes >= 2

\* the documented number of transfers of a mode at the call's distance
DocumentedTransfers(m) ==
    CASE m = "bus" -> IF distance > 5000000 THEN 1 ELSE 0
      [] m = "train" -> IF distance < 10000000 THEN 0 ELSE 1
      [] m = "metro" -> IF distance < 8000000 THEN 0 ELSE 1
      [] m = "walking" -> 0
      [] m = "cycling" -> 0

\* C11: transfers follow the documented thresholds: bus 1 iff d > 5, train 1
\* iff d >= 10, metro 1 iff d >= 8, walking and cycling 0
C11_Transfers ==
    Done => \A i \in 1..Len(Routes) :
                Routes[i].transfers = DocumentedTransfers(Routes[i].mode)

TransfersOf(m) == Routes[CHOOSE i \in 1..Len(Routes) : Routes[i].mode = m].transfers

\* a call between 8 and 10 km: bus and metro with a transfer, train without
C11_Witness ==
    /\ Done
    /\ distance >= 8000000
    /\ distance < 10000000
    /\ Has("bus") /\ TransfersOf("bus") = 1
    /\ Has("train") /\ TransfersOf("train") = 0
    /\ Has("metro") /\ TransfersOf("metro") = 1
    /\ Has("cycling") /\ TransfersOf("cycling") = 0

\* C12: walking costs 0 and emits 0; cycling emits 0 and costs 0 below 3 km,
\* 20 from 3 km up to 10 km
C12_WalkingCyclingCost ==
    Done => \A i \in 1..Len(Routes) :
                /\ Routes[i].mode = "walking" =>
                      (Routes[i].cost = 0 /\ Routes[i].emissions = 0)
                /\ Routes[i].mode = "cycling" =>
                      /\ Routes[i].emissions = 0
                      /\ distance < 3000000 => Routes[i].cost = 0
                      /\ (distance >= 3000000 /\ distance < 10000000) =>
                            Routes[i].cost = 20

\* a call between 3 and 5 km that returns a walking route and a paid cycling route
C12_Witness ==
    /\ Done
    /\ distance >= 3000000
    /\ distance < 5000000
    /\ Has("walking")
    /\ \E i \in 1..Len(Routes) : Routes[i].mode = "cycling" /\ Routes[i].cost = 20

\* the congestion level fixed for a mode, in tenths
FixedCongestion(m) ==
    CASE m = "bus" -> 7
      [] m = "train" -> 8
      [] m = "metro" -> 6
      [] m = "walking" -> 1
      [] m = "cycling" -> 3

\* C13: every route has duration_minutes, cost and transfers integers >= 0,
\* distance_km and emissions >= 0, and the congestion level fixed for its mode,
\* which lies in [0, 1]
C13_RouteOptionInvariant ==
    Done => \A i \in 1..Len(Routes) :
                /\ Routes[i].duration_minutes \in Nat
                /\ Routes[i].cost \in Nat
                /\ Routes[i].transfers \in Nat
                /\ Routes[i].distance_km >= 0
                /\ Routes[i].emissions >= 0
                /\ Routes[i].congestion_level = FixedCongestion(Routes[i].mode)
                /\ Routes[i].congestion_level >= 0
                /\ Routes[i].congestion_level <= 10

\* all five modes returned by one call, each with a positive duration
C13_Witness ==
    /\ Done
    /\ Len(Routes) = 5
    /\ distance > 3000000
    /\ \A i \in 1..5 : Routes[i].duration_minutes > 0

C15_HaversineZeroSymmetric ==
    pc = "distance" =>
        /\ start_coords = end_coords => distance = 0
        /\ distance = haversine(end_coords[1], end_coords[2],
                                start_coords[1], start_coords[2])

\* two points of different latitude and longitude
C15_Witness ==
    /\ pc = "distance"
    /\ start_coords[1] # end_coords[1]
    /\ start_coords[2] # end_coords[2]
    /\ distance > 0

Shown(kind, text) ==
    \E i \in 1..Len(rendered) : rendered[i][1] = kind /\ rendered[i][2] = text

\* C16: the synchronisation step overwrites the session's city, date and
\* time with a differing selection and then resets both results to None;
\* with equal selections it leaves the five fields as they were
C16_Synchronisation ==
    [][pc = "sidebar" =>
        LET s == session_state
            w == sidebar'
            differs == \/ w.selected_city # s.selected_city
                       \/ w.selected_date # s.selected_date
                       \/ w.selected_time # s.selected_time
        IN  /\ session_state'.selected_city = w.selected_city
            /\ session_state'.selected_date = w.selected_date
            /\ session_state'.selected_time = w.selected_time
            /\ differs => /\ session_state'.optimized_routes = None
                          /\ session_state'.simulation_results = None
            /\ ~differs => /\ session_state'.optimized_routes = s.optimized_routes
                           /\ session_state'.simulation_results = s.simulation_results
                           /\ session_state'.selected_city = s.selected_city
                           /\ session_state'.selected_date = s.selected_date
                           /\ session_state'.selected_time = s.selected_time]_vars

\* a simulation for Delhi had returned, then Mumbai was selected: the
\* session holds Mumbai and no results
C16_Witness ==
    /\ pc = "actions"
    /\ Len(calls) = 2
    /\ calls[2].outcome = "returns"
    /\ calls[2].args[1] = "Delhi"
    /\ calls[2].args[2] = <<session_state.selected_date, session_state.selected_time>>
    /\ sidebar.button = "Run Simulation"
    /\ session_state.selected_city = "Mumbai"
    /\ session_state.simulation_results = None
    /\ session_state.optimized_routes = None
    /\ session_state.show_simulation

\* C17: when the call of a clicked button raises, the handler shows its
\* error message, has made each call once, leaves the session's result as it
\* was before the click, and the tabs are rendered after the message
C17_ErrorsCaught ==
    [][/\ (pc = "actions" /\ sidebar'.button = "Optimize Routes"
              /\ calls'[Len(calls')].outcome = "raises") =>
            /\ session_state'.optimized_routes = session_state.optimized_routes
            /\ rendered' = rendered \o << <<"error", "Error optimizing routes">> >>
            /\ Len(calls') = 1
            /\ pc' = "tabs"
       /\ (pc = "actions" /\ sidebar'.button = "Run Simulation"
              /\ calls'[Len(calls')].outcome = "raises") =>
            /\ session_state'.simulation_results = session_state.simulation_results
            /\ rendered' = rendered \o << <<"error", "Error running simulation">> >>
            /\ Len(calls') <= 2
            /\ \A i, j \in 1..Len(calls') :
                   calls'[i].callee = calls'[j].callee => i = j
            /\ pc' = "tabs"
       /\ (pc = "tabs" /\ Len(calls) > 0 /\ calls[Len(calls)].outcome = "raises") =>
            /\ rendered' = rendered \o Tabs(session_state, sidebar.simulation_params)
            /\ Len(rendered') >= Len(rendered) + 4
            /\ UNCHANGED <<session_state, calls>>]_vars

\* a second click on Optimize Routes raised: the earlier result is still
\* stored, the error and the result's tab are on the page
C17_Witness ==
    /\ pc = "sidebar"
    /\ sidebar.button = "Optimize Routes"
    /\ Len(calls) = 1
    /\ calls[1].outcome = "raises"
    /\ session_state.optimized_routes # None
    /\ Shown("error", "Error optimizing routes")
    /\ Shown("subheader", "Optimized Routes Summary")

\* the page of a submission with at least one mode checked
Submitted == pc = "page" /\ form.submit_button /\ form.modes # {}

RenderedTabs == SelectSeq(rendered, LAMBDA x : x[1] = "tab")

\* C18: a submission with a mode checked renders either the 'No routes
\* found' error and no tab (total_routes = 0), or the success message and one
\* tab per returned route in the order of the list, never both
C18_OneOutcome ==
    Submitted =>
        /\ returned # <<>>
        /\ IF returned[1].total_routes = 0
           THEN /\ Shown("error", "No routes found")
                /\ ~Shown("success", "Found routes")
                /\ RenderedTabs = <<>>
           ELSE /\ Shown("success", "Found routes")
                /\ ~Shown("error", "No routes found")
                /\ Len(RenderedTabs) = Len(returned[1].routes)
                /\ \A i \in 1..Len(RenderedTabs) :
                       RenderedTabs[i] = <<"tab", Capitalize[returned[1].routes[i].mode]>>

\* only walking checked and the two places 5 km or more apart
C18_Witness ==
    /\ Submitted
    /\ form.modes = {"walking"}
    /\ distance >= 5000000
    /\ returned[1].total_routes = 0
    /\ Shown("error", "No routes found")

\* C19: load_transport_infrastructure returns the four keys for every city,
\* each with an empty list for a city other than Mumbai and Delhi, and the
\* Route Planner then offers Current Location and the six default locations
C19_InfrastructureFallback ==
    pc \in {"submit", "page"} =>
        /\ DOMAIN form.infrastructure =
               {"railway_stations", "airports", "bus_stations", "metro_stations"}
        /\ sidebar.city \notin {"Mumbai", "Delhi"} =>
               /\ \A k \in DOMAIN form.infrastructure : form.infrastructure[k] = <<>>
               /\ Len(form.all_locations) = 7
               /\ form.all_locations[1] = L_CurrentLocation
               /\ {form.all_locations[i] : i \in 2..7}
                      = {DefaultLocations[i] : i \in 1..6}

\* Pune has no table: the list starts Current Location, Airport
C19_Witness ==
    /\ pc = "submit"
    /\ sidebar.city = "Pune"
    /\ form.infrastructure.airports = <<>>
    /\ form.all_locations[2] = L_Airport
    /\ form.all_locations[7] = L_University

\* C20: with Current Location as the start, the distance is computed from
\* the coordinate pair get_current_location gives for the selected city
C20_CurrentLocationUsed ==
    (Submitted /\ form.start_location = L_CurrentLocation) =>
        start_coords = get_current_location(sidebar.city)

\* C21: a submission with no mode checked shows 'Please select at least one
\* transport mode.', does not call calculate_routes, and renders neither the
\* success message, a route tab nor 'No routes found'
C21_NoModeSelected ==
    (pc = "page" /\ form.submit_button /\ form.modes = {}) =>
        /\ Shown("error", "Please select at least one transport mode.")
        /\ calls = <<>>
        /\ returned = <<>>
        /\ ~Shown("success", "Found routes")
        /\ ~Shown("error", "No routes found")
        /\ RenderedTabs = <<>>

\* all five checkboxes cleared, a destination typed, the form submitted
C21_Witness ==
    /\ pc = "page"
    /\ form.submit_button
    /\ form.modes = {}
    /\ form.custom_end = L_BKC
    /\ Len(rendered) = 2
    /\ rendered[2] = <<"error", "Please select at least one transport mode.">>

\* C22: when the Optimization Results tab shows results, the stored value
\* was returned by get_optimized_route for the session's current city, date
\* and time
C22_RoutesForCurrentSelection ==
    ((pc = "tabs" \/ Shown("subheader", "Optimized Routes Summary"))
         /\ session_state.optimized_routes # None) =>
        /\ session_state.optimized_routes[1].optimized_for = session_state.selected_city
        /\ session_state.optimized_routes[1].datetime =
               <<session_state.selected_date, session_state.selected_time>>

\* results shown for Mumbai, selected after the session started with Delhi
C22_Witness ==
    /\ pc = "sidebar"
    /\ Shown("subheader", "Optimized Routes Summary")
    /\ session_state.selected_city = "Mumbai"
    /\ session_state.optimized_routes[1].optimized_for = "Mumbai"
    /\ sidebar.button = NoButton

\* C23: the parameters the Simulation tab shows with the results are the
\* parameters passed to the simulate_conditions call that returned them
C23_ShownParametersAreSimulated ==
    Shown("subheader", "Simulation Results") =>
        Shown("Simulation Parameters", session_state.simulation_results[1].params)

\* C24: once rendered, the Simulation tab shows the prompt or the results
C24_PromptOrResults ==
    Shown("header", "Transport Network Simulation") =>
        \/ Shown("info", "Use the Simulation controls in the sidebar")
        \/ Shown("subheader", "Simulation Results")

\* C25: Refresh Data changes no session field, Optimize Routes none but
\* optimized_routes, Run Simulation none but show_simulation and
\* simulation_results
C25_ButtonFrames ==
    [][pc = "actions" =>
        /\ sidebar'.button = "Refresh Data" => session_state' = session_state
        /\ sidebar'.button = "Optimize Routes" =>
               session_state' =
                   [session_state EXCEPT
                       !.optimized_routes = session_state'.optimized_routes]
        /\ sidebar'.button = "Run Simulation" =>
               session_state' =
                   [session_state EXCEPT
                       !.show_simulation = session_state'.show_simulation,
                       !.simulation_results = session_state'.simulation_results]]_vars

\* Refresh Data clicked while both results are stored
C25_Witness ==
    /\ pc = "tabs"
    /\ sidebar.button = "Refresh Data"
    /\ Shown("success", "Data updated successfully!")
    /\ session_state.optimized_routes # None
    /\ session_state.simulation_results # None

\* the fields of the route options that C26 compares
Options(result) ==
    [i \in 1..Len(result.routes) |->
        <<result.routes[i].mode, result.routes[i].duration_minutes,
          result.routes[i].distance_km, result.routes[i].cost,
          result.routes[i].emissions, result.routes[i].transfers>>]

BothCalled == Len(calls) = 2

\* C26 as stated: a call and the call with start and end exchanged return the
\* same modes with the same duration, distance, cost, emissions and transfers,
\* also when a label matches no key
C26_SwapAsStated ==
    BothCalled => Options(calls[1].result) = Options(calls[2].result)

\* C26 amended: they do when both labels match a key of the mapping or
\* neither does
C26_SwapBothOrNeither ==
    (BothCalled /\ (NoMatch(start_location) <=> NoMatch(end_location))) =>
        Options(calls[1].result) = Options(calls[2].result)

\* "Bandra Kurla Complex (BKC)" to "CST" and back, both matching keys
C26_Witness ==
    /\ BothCalled
    /\ start_location = L_CST
    /\ end_location = L_BKC
    /\ city = "Mumbai"
    /\ calls[1].result.total_routes >= 3
    /\ calls[2].result.total_routes >= 3

\* the position of a mode in the construction order of the routes
ConstructionRank ==
    [bus |-> 1, train |-> 2, metro |-> 3, walking |-> 4, cycling |-> 5]

PositionOf(m) == CHOOSE i \in 1..Len(Routes) : Routes[i].mode = m

\* C27: routes of equal duration stay in the order bus, train, metro,
\* walking, cycling; bus and cycling, when both returned, have the same
\* duration with bus first; metro is first only with a duration strictly
\* below those of the bus and train routes returned
C27_StableOrder ==
    Done =>
        /\ \A i, j \in 1..Len(Routes) :
               (i < j /\ Routes[i].duration_minutes = Routes[j].duration_minutes) =>
                   ConstructionRank[Routes[i].mode] < ConstructionRank[Routes[j].mode]
        /\ (Has("bus") /\ Has("cycling")) =>
               /\ DurationOf("bus") = DurationOf("cycling")
               /\ PositionOf("bus") < PositionOf("cycling")
        /\ (Len(Routes) > 0 /\ Routes[1].mode = "metro") =>
               \A i \in 1..Len(Routes) :
                   Routes[i].mode \in {"bus", "train"} =>
                       Routes[1].duration_minutes < Routes[i].duration_minutes

\* metro first, then train, then bus and cycling with the same duration
C27_Witness ==
    /\ Done
    /\ Len(Routes) >= 4
    /\ Routes[1].mode = "metro"
    /\ Has("train")
    /\ Has("bus")
    /\ Has("cycling")
    /\ PositionOf("cycling") = PositionOf("bus") + 1
    /\ DurationOf("bus") > DurationOf("train")

\* C28: at most one route per mode, every route's mode requested and one of
\* the five, so at most five routes; a mode listed twice gives one route and
\* an unknown mode none
C28_OneRoutePerMode ==
    Done =>
        /\ \A i, j \in 1..Len(Routes) : Routes[i].mode = Routes[j].mode => i = j
        /\ \A i \in 1..Len(Routes) :
               /\ Routes[i].mode \in {"bus", "train", "metro", "walking", "cycling"}
               /\ Requested(Routes[i].mode)
        /\ Res.total_routes <= 5
        /\ Len(Routes) <= 5

\* bus passed twice: one bus route
C28_Witness ==
    /\ Done
    /\ transport_modes = <<"bus", "bus">>
    /\ Len(Routes) = 1
    /\ Routes[1].mode = "bus"

\* C29: with start and end at the same coordinates and all five modes
\* requested there is no train route, and bus, metro (in a metro city),
\* walking and cycling are returned in that order with duration, cost and
\* transfers 0
C29_ZeroDistance ==
    (Done /\ start_coords = end_coords /\ AllFiveRequested) =>
        /\ distance = 0
        /\ ~Has("train")
        /\ [i \in 1..Len(Routes) |-> Routes[i].mode] =
               IF city \in {"Mumbai", "Delhi", "Bangalore", "Chennai", "Hyderabad", "Kolkata"}
               THEN <<"bus", "metro", "walking", "cycling">>
               ELSE <<"bus", "walking", "cycling">>
        /\ \A i \in 1..Len(Routes) :
               /\ Routes[i].duration_minutes = 0
               /\ Routes[i].cost = 0
               /\ Routes[i].transfers = 0

\* "CST" to "Chhatrapati Shivaji Terminus (CST)" in Mumbai, no modes passed
C29_Witness ==
    /\ Done
    /\ city = "Mumbai"
    /\ start_location = L_CST
    /\ end_location = L_CSTerminus
    /\ transport_modes = <<"None">>
    /\ start_coords = end_coords
    /\ Len(Routes) = 4

====
